---- MODULE Spec2Model ----
(***************************************************************************)
(* Model of dfu-cross-usb (src/src/lib.rs): the adapter that lets the      *)
(* dfu_core protocol engine talk to a cross_usb device.                    *)
(*                                                                         *)
(*   - DfuCrossUsb::open: an async function with four await points         *)
(*     (device open, interface claim, SET_INTERFACE, GET_DESCRIPTOR)       *)
(*     followed by descriptor parsing and protocol construction.           *)
(*   - read_control / write_control / usb_reset: each call creates a       *)
(*     oneshot channel, spawns a task with spawn_local and waits on the    *)
(*     receiving side (block_on for the DfuIo form, .await for the         *)
(*     DfuAsyncIo form); DfuIo::usb_reset drives device.reset() directly.  *)
(*   - split_request_type: the pure decoder of the bmRequestType byte.     *)
(*                                                                         *)
(* cross_usb (the transport) and dfu_core (descriptor parser, protocol     *)
(* constructor) are external crates.  The transport is modelled as an      *)
(* environment that answers every transfer with any result of its return   *)
(* type; FunctionalDescriptor::from_bytes is modelled by what dfu_core     *)
(* does; DfuProtocol::new may succeed or fail for any version.             *)
(***************************************************************************)
EXTENDS Integers, Sequences, FiniteSets, TLC

VARIABLES
    openArgs,     \* (interface_number, alt_setting) passed to open
    openPc,       \* position of the open future
    openTrace,    \* what open has done so far, in order
    openResult,   \* the Result open returned
    session,      \* the DfuCrossUsb value open returned (Self)
    calls,        \* the adapter calls made on the session
    channels,     \* the oneshot channels created so far
    codec         \* request-type byte under decode and its decoded pair

vars == <<openArgs, openPc, openTrace, openResult, session, calls, channels, codec>>

----------------------------------------------------------------------------
(* Bounds *)

MaxCalls == 2        \* adapter calls made on one session
MaxBuf == 2          \* longest caller buffer
MaxResp == 3         \* longest byte sequence a control-IN returns to a call
MaxDescLen == 10     \* longest byte sequence the descriptor fetch returns

----------------------------------------------------------------------------
(* Program constants *)

DFU_FUNCTIONAL_DESCRIPTOR_TYPE == 33
DFU_FUNCTIONAL_DESCRIPTOR_INDEX == 0
SET_INTERFACE == 11
GET_DESCRIPTOR == 6
DescriptorRequestLength == 9

Min(a, b) == IF a < b THEN a ELSE b

\* cross_usb::usb::Error values the transport can report
TransportErrors == {"Disconnected", "TransferError"}

----------------------------------------------------------------------------
(* Result values.  Every result has the same shape so that any two can be  *)
(* compared: bytes is the payload of a control-IN, n a byte count.         *)

NoErr == [variant |-> "-", inner |-> "-"]
NoRes == [tag |-> "none", bytes |-> <<>>, n |-> 0, err |-> NoErr]
OkBytes(b) == [tag |-> "ok", bytes |-> b, n |-> 0, err |-> NoErr]
OkCount(k) == [tag |-> "ok", bytes |-> <<>>, n |-> k, err |-> NoErr]
OkUnit == [tag |-> "ok", bytes |-> <<>>, n |-> 0, err |-> NoErr]
Err(variant, inner) ==
    [tag |-> "err", bytes |-> <<>>, n |-> 0,
     err |-> [variant |-> variant, inner |-> inner]]

\* a transport failure as the transport reports it
TransportErr(e) == Err("cross_usb", e)

\* #[from] cross_usb::usb::Error: the `?` conversion into Error::WebUsb
FromTransportError(e) == Err("WebUsb", e)

----------------------------------------------------------------------------
(* split_request_type *)

\* ControlTypeOf without the & 0x03 mask
ControlTypeOfUnmasked(request_type) ==
    LET bits == request_type \div 32
    IN  CASE bits = 0 -> "Standard"
          [] bits = 1 -> "Class"
          [] bits = 2 -> "Vendor"
          [] OTHER -> "Standard"

ControlTypeOf(request_type) ==
    LET bits == (request_type \div 32) % 4
    IN  CASE bits = 0 -> "Standard"
          [] bits = 1 -> "Class"
          [] bits = 2 -> "Vendor"
          [] OTHER -> "Standard"

RecipientOf(request_type) ==
    LET bits == request_type % 32
    IN  CASE bits = 0 -> "Device"
          [] bits = 1 -> "Interface"
          [] bits = 2 -> "Endpoint"
          [] bits = 3 -> "Other"
          [] OTHER -> "Device"

split_request_type(request_type) ==
    <<ControlTypeOf(request_type), RecipientOf(request_type)>>

----------------------------------------------------------------------------
(* Control transfers handed to the transport *)

ControlOut(control_type, recipient, request, value, index, data) ==
    [dir |-> "out", control_type |-> control_type, recipient |-> recipient,
     request |-> request, value |-> value, index |-> index,
     data |-> data, length |-> 0]

ControlIn(control_type, recipient, request, value, index, length) ==
    [dir |-> "in", control_type |-> control_type, recipient |-> recipient,
     request |-> request, value |-> value, index |-> index,
     data |-> <<>>, length |-> length]

NoTransfer == ControlIn("-", "-", 0, 0, 0, 0)

----------------------------------------------------------------------------
(* dfu_core::functional_descriptor::FunctionalDescriptor::from_bytes       *)
(*   fewer than 2 bytes, or byte 1 /= 0x21        -> None                  *)
(*   type byte 0x21 but fewer than 9 bytes        -> Some(Err(DataTooShort))*)
(*   otherwise the fields are decoded from bytes 2..8 (little endian);     *)
(*   byte 0 (bLength) and bytes after the ninth are not looked at.         *)

Bit(byte, i) == (byte \div (2 ^ i)) % 2 = 1

NoDescriptor ==
    [can_download |-> FALSE, can_upload |-> FALSE,
     manifestation_tolerant |-> FALSE, will_detach |-> FALSE,
     detach_timeout |-> 0, transfer_size |-> 0, dfu_version |-> <<0, 0>>]

DecodeDescriptor(bytes) ==
    [can_download |-> Bit(bytes[3], 0),
     can_upload |-> Bit(bytes[3], 1),
     manifestation_tolerant |-> Bit(bytes[3], 2),
     will_detach |-> Bit(bytes[3], 3),
     detach_timeout |-> bytes[4] + 256 * bytes[5],
     transfer_size |-> bytes[6] + 256 * bytes[7],
     dfu_version |-> <<bytes[9], bytes[8]>>]

from_bytes(bytes) ==
    IF Len(bytes) < 2 THEN [tag |-> "None", descriptor |-> NoDescriptor]
    ELSE IF bytes[2] # DFU_FUNCTIONAL_DESCRIPTOR_TYPE
         THEN [tag |-> "None", descriptor |-> NoDescriptor]
    ELSE IF Len(bytes) < 9
         THEN [tag |-> "SomeErr", descriptor |-> NoDescriptor]
    ELSE [tag |-> "SomeOk", descriptor |-> DecodeDescriptor(bytes)]

----------------------------------------------------------------------------
(* dfu_core::DfuProtocol::new(interface_string, version): the protocol     *)
(* engine's constructor.  It returns the protocol object or a dfu_core     *)
(* error; which versions it accepts is the engine's business, so either    *)
(* outcome is possible for every version.                                  *)

NoProtocol == [interface_string |-> "-", version |-> <<0, 0>>]

ProtocolOutcomes(interface_string, version) ==
    {[tag |-> "ok",
      protocol |-> [interface_string |-> interface_string, version |-> version]],
     [tag |-> "err", protocol |-> NoProtocol]}

----------------------------------------------------------------------------
(* DfuCrossUsb::open *)

NoSession ==
    [interface_number |-> 0, descriptor |-> NoDescriptor, protocol |-> NoProtocol]

InterfaceNumbers == {0, 1}
AltSettings == {0, 1}

\* Byte sequences a device may answer the descriptor fetch with: every
\* prefix (up to MaxDescLen bytes) of these device answers.
DeviceAnswers ==
    {<<9, 33, 11, 255, 0, 0, 8, 16, 1, 7, 5, 129>>,     \* DFU 1.1
     <<9, 33, 13, 16, 39, 0, 4, 26, 1, 7, 5, 129>>,     \* DfuSe 1.1a
     <<7, 33, 1, 0, 1, 64, 0, 0, 1, 9, 4, 0>>,          \* bLength is not 9
     <<9, 4, 0, 0, 0, 254, 1, 2, 0, 9, 33, 11>>}        \* an interface descriptor

Prefix(s, n) == SubSeq(s, 1, Min(n, Len(s)))

DescriptorResponses == {Prefix(a, n) : a \in DeviceAnswers, n \in 0..MaxDescLen}

\* entries of openTrace
Issued(xfer) ==
    [ev |-> "issue", xfer |-> xfer, res |-> NoRes, version |-> <<0, 0>>,
     interface_string |-> "-"]
Completed(xfer, res) ==
    [ev |-> "complete", xfer |-> xfer, res |-> res, version |-> <<0, 0>>,
     interface_string |-> "-"]
FromBytes(bytes) ==
    [ev |-> "from_bytes", xfer |-> NoTransfer, res |-> OkBytes(bytes),
     version |-> <<0, 0>>, interface_string |-> "-"]
ProtocolNew(interface_string, version) ==
    [ev |-> "protocol_new", xfer |-> NoTransfer, res |-> NoRes, version |-> version,
     interface_string |-> interface_string]

OpenFails(res) ==
    /\ openPc' = "failed"
    /\ openResult' = res
    /\ session' = NoSession

\* what the `?` after the SET_INTERFACE control_out makes of a transport error
AltSettingError(e) == FromTransportError(e)

\* SetInterfaceTransfer with value and index exchanged
SetInterfaceTransferSwapped ==
    ControlOut("Standard", "Interface", SET_INTERFACE, openArgs.interface_number,
               openArgs.alt_setting, <<>>)

\* the SET_INTERFACE transfer built by open
SetInterfaceTransfer ==
    ControlOut("Standard", "Interface", SET_INTERFACE, openArgs.alt_setting,
               openArgs.interface_number, <<>>)

\* the GET_DESCRIPTOR transfer built by open
GetDescriptorTransfer ==
    ControlIn("Standard", "Interface", GET_DESCRIPTOR,
              (DFU_FUNCTIONAL_DESCRIPTOR_TYPE * 256) + DFU_FUNCTIONAL_DESCRIPTOR_INDEX,
              openArgs.interface_number, DescriptorRequestLength)

\* device_info.open().await?
OpenDevice ==
    /\ openPc = "start"
    /\ \/ /\ openPc' = "device_opened"
          /\ UNCHANGED <<openResult, session>>
       \/ \E e \in TransportErrors : OpenFails(FromTransportError(e))
    /\ UNCHANGED <<openArgs, openTrace, calls, channels, codec>>

\* device.open_interface(interface_number).await?
OpenInterface ==
    /\ openPc = "device_opened"
    /\ \/ /\ openPc' = "claimed"
          /\ UNCHANGED <<openResult, session>>
       \/ \E e \in TransportErrors : OpenFails(FromTransportError(e))
    /\ UNCHANGED <<openArgs, openTrace, calls, channels, codec>>

\* interface.control_out(ControlOut { .. SET_INTERFACE .. }) is issued
SetInterfaceIssue ==
    /\ openPc = "claimed"
    /\ openPc' = "alt_wait"
    /\ openTrace' = Append(openTrace, Issued(SetInterfaceTransfer))
    /\ UNCHANGED <<openArgs, openResult, session, calls, channels, codec>>

\* SetInterfaceComplete with the `?` lost: a rejected SET_INTERFACE is ignored
SetInterfaceCompleteIgnoringError ==
    /\ openPc = "alt_wait"
    /\ \/ openTrace' = Append(openTrace, Completed(SetInterfaceTransfer, OkCount(0)))
       \/ \E e \in TransportErrors :
            openTrace' = Append(openTrace, Completed(SetInterfaceTransfer, TransportErr(e)))
    /\ openPc' = "alt_set"
    /\ UNCHANGED <<openArgs, openResult, session, calls, channels, codec>>

\* .await? on the SET_INTERFACE transfer
SetInterfaceComplete ==
    /\ openPc = "alt_wait"
    /\ \/ \E k \in {0} :
            /\ openTrace' = Append(openTrace, Completed(SetInterfaceTransfer, OkCount(k)))
            /\ openPc' = "alt_set"
            /\ UNCHANGED <<openResult, session>>
       \/ \E e \in TransportErrors :
            /\ openTrace' = Append(openTrace,
                                   Completed(SetInterfaceTransfer, TransportErr(e)))
            /\ OpenFails(AltSettingError(e))
    /\ UNCHANGED <<openArgs, calls, channels, codec>>

\* interface.control_in(ControlIn { .. GET_DESCRIPTOR .. }) is issued
GetDescriptorIssue ==
    /\ openPc = "alt_set"
    /\ openPc' = "desc_wait"
    /\ openTrace' = Append(openTrace, Issued(GetDescriptorTransfer))
    /\ UNCHANGED <<openArgs, openResult, session, calls, channels, codec>>

\* ResolveDescriptor with unwrap_or_default in place of ok_or(..)??: an absent
\* or unparsable descriptor is replaced by a default one
ResolveDescriptorLenient(bytes) ==
    LET parsed == from_bytes(bytes)
        d == parsed.descriptor
    IN  /\ openTrace' = Append(Append(Append(openTrace,
                                  Completed(GetDescriptorTransfer, OkBytes(bytes))),
                                  FromBytes(bytes)),
                                  ProtocolNew("", d.dfu_version))
        /\ \E out \in ProtocolOutcomes("", d.dfu_version) :
             IF out.tag = "ok"
             THEN /\ openPc' = "done"
                  /\ openResult' = OkUnit
                  /\ session' = [interface_number |-> openArgs.interface_number,
                                 descriptor |-> d,
                                 protocol |-> out.protocol]
             ELSE OpenFails(Err("Dfu", "protocol"))

\* ResolveDescriptor with the protocol built for DFU 1.1 whatever the
\* descriptor says
ResolveDescriptorFixedVersion(bytes) ==
    LET parsed == from_bytes(bytes)
        d == parsed.descriptor
        seen == Append(Append(openTrace, Completed(GetDescriptorTransfer, OkBytes(bytes))),
                       FromBytes(bytes))
    IN  CASE parsed.tag = "None" ->
               /\ openTrace' = seen
               /\ OpenFails(Err("FunctionalDescriptorNotFound", "-"))
          [] parsed.tag = "SomeErr" ->
               /\ openTrace' = seen
               /\ OpenFails(Err("FunctionalDescriptor", "DataTooShort"))
          [] OTHER ->
               /\ openTrace' = Append(seen, ProtocolNew("", <<1, 16>>))
               /\ \E out \in ProtocolOutcomes("", <<1, 16>>) :
                    IF out.tag = "ok"
                    THEN /\ openPc' = "done"
                         /\ openResult' = OkUnit
                         /\ session' = [interface_number |-> openArgs.interface_number,
                                        descriptor |-> d,
                                        protocol |-> out.protocol]
                    ELSE OpenFails(Err("Dfu", "protocol"))

\* FunctionalDescriptor::from_bytes(&descriptor_bytes)
\*     .ok_or(Error::FunctionalDescriptorNotFound)??
\* then DfuProtocol::new(&String::new(), descriptor.dfu_version)? and Ok(Self {..})
ResolveDescriptor(bytes) ==
    LET parsed == from_bytes(bytes)
        d == parsed.descriptor
        seen == Append(Append(openTrace, Completed(GetDescriptorTransfer, OkBytes(bytes))),
                       FromBytes(bytes))
    IN  CASE parsed.tag = "None" ->
               /\ openTrace' = seen
               /\ OpenFails(Err("FunctionalDescriptorNotFound", "-"))
          [] parsed.tag = "SomeErr" ->
               /\ openTrace' = seen
               /\ OpenFails(Err("FunctionalDescriptor", "DataTooShort"))
          [] OTHER ->
               /\ openTrace' = Append(seen, ProtocolNew("", d.dfu_version))
               /\ \E out \in ProtocolOutcomes("", d.dfu_version) :
                    IF out.tag = "ok"
                    THEN /\ openPc' = "done"
                         /\ openResult' = OkUnit
                         /\ session' = [interface_number |-> openArgs.interface_number,
                                        descriptor |-> d,
                                        protocol |-> out.protocol]
                    ELSE OpenFails(Err("Dfu", "protocol"))

\* .await? on the GET_DESCRIPTOR transfer and the rest of open
GetDescriptorComplete ==
    /\ openPc = "desc_wait"
    /\ \/ \E bytes \in DescriptorResponses : ResolveDescriptor(bytes)
       \/ \E e \in TransportErrors :
            /\ openTrace' = Append(openTrace,
                                   Completed(GetDescriptorTransfer, TransportErr(e)))
            /\ OpenFails(FromTransportError(e))
    /\ UNCHANGED <<openArgs, calls, channels, codec>>

Open ==
    \/ OpenDevice
    \/ OpenInterface
    \/ SetInterfaceIssue
    \/ SetInterfaceComplete
    \/ GetDescriptorIssue
    \/ GetDescriptorComplete

\* DfuIo / DfuAsyncIo accessors
functional_descriptor == session.descriptor
protocol == session.protocol

----------------------------------------------------------------------------
(* Adapter calls on a session.  A call lives in a slot from the moment the *)
(* adapter function is entered until its result has been consumed and its  *)
(* spawned task has ended.                                                 *)

CallIds == 1..MaxCalls

\* who makes a call: DfuAsyncIo futures are awaited by a task of the
\* single-threaded scheduler; DfuIo calls block the calling thread, which is
\* either a foreign thread or the scheduler's own.
Callers ==
    {[mode |-> "async", ctx |-> "scheduler"],
     [mode |-> "sync", ctx |-> "external"],
     [mode |-> "sync", ctx |-> "scheduler"]}

NoCall ==
    [kind |-> "-", mode |-> "-", ctx |-> "-",
     request_type |-> 0, request |-> 0, value |-> 0,
     buffer |-> <<>>, buffer0 |-> <<>>,
     ch |-> 0, caller |-> "-", task |-> "-",
     control_type |-> "-", recipient |-> "-", index |-> 0, length |-> 0,
     data |-> <<>>,
     xfer |-> NoTransfer, issued |-> 0, tres |-> NoRes, result |-> NoRes]

\* a oneshot channel: the value in it, how many sends it has seen, whether
\* the value was received, and which ends have been dropped
FreeChannel ==
    [live |-> FALSE, val |-> NoRes, sent |-> 0, taken |-> FALSE,
     rxDropped |-> FALSE, txDropped |-> FALSE]
EmptyChannel ==
    [live |-> TRUE, val |-> NoRes, sent |-> 0, taken |-> FALSE,
     rxDropped |-> FALSE, txDropped |-> FALSE]

\* oneshot::channel(): a channel no live call holds
NewChannelId == CHOOSE ch \in CallIds :
    /\ ~channels[ch].live
    /\ \A other \in CallIds : ~channels[other].live => ch <= other

FreeSlot(c) ==
    /\ calls[c] = NoCall
    /\ \A other \in CallIds : calls[other] = NoCall => c <= other

\* BufferLenU16 when the cast saturated instead of wrapping
BufferLenSaturating(buffer) == IF Len(buffer) > 65535 THEN 65535 ELSE Len(buffer)

\* buffer.len() as u16
BufferLenU16(buffer) == Len(buffer) % 65536

\* SchedulerBlocked when a block_on would let the scheduler go on running
SchedulerBlockedNever == FALSE

\* SchedulerBlocked when awaiting a call's future also held the scheduler's
\* thread
SchedulerBlockedByAwait ==
    \E c \in CallIds :
        /\ calls[c].ctx = "scheduler"
        /\ calls[c].caller = "waiting"

\* a block_on from the scheduler's own thread keeps that thread from running
\* anything else
SchedulerBlocked ==
    \E c \in CallIds :
        /\ calls[c].mode = "sync"
        /\ calls[c].ctx = "scheduler"
        /\ calls[c].caller = "waiting"

CanRun(ctx) == ctx = "scheduler" => ~SchedulerBlocked

\* TxOf when every task sends on one channel kept for the whole session
TxOfShared(c) == 1

\* the sending end the spawned task of call c holds (tx, moved into the task)
TxOf(c) == calls[c].ch

\* the receiving end the future returned to the caller of c holds (rx)
RxOf(c) == calls[c].ch

\* DfuCrossUsb::read_control up to the return of the future: decode the
\* request type, create the channel, spawn the control-IN task
ReadControl(c, who, request_type, request, value, buffer) ==
    /\ openPc = "done"
    /\ FreeSlot(c)
    /\ CanRun(who.ctx)
    /\ LET ch == NewChannelId
           decoded == split_request_type(request_type)
       IN  /\ channels' = [channels EXCEPT ![ch] = EmptyChannel]
           /\ calls' = [calls EXCEPT ![c] =
                 [NoCall EXCEPT
                    !.kind = "read", !.mode = who.mode, !.ctx = who.ctx,
                    !.request_type = request_type, !.request = request,
                    !.value = value, !.buffer = buffer, !.buffer0 = buffer,
                    !.ch = ch, !.caller = "waiting", !.task = "spawned",
                    !.control_type = decoded[1], !.recipient = decoded[2],
                    !.index = session.interface_number,
                    !.length = BufferLenU16(buffer)]]
    /\ UNCHANGED <<openArgs, openPc, openTrace, openResult, session, codec>>

\* buffer.to_vec(): the payload moved into the control-OUT task
PayloadCopy(buffer) == buffer

\* DfuCrossUsb::write_control up to the return of the future
WriteControl(c, who, request_type, request, value, buffer) ==
    /\ openPc = "done"
    /\ FreeSlot(c)
    /\ CanRun(who.ctx)
    /\ LET ch == NewChannelId
           decoded == split_request_type(request_type)
       IN  /\ channels' = [channels EXCEPT ![ch] = EmptyChannel]
           /\ calls' = [calls EXCEPT ![c] =
                 [NoCall EXCEPT
                    !.kind = "write", !.mode = who.mode, !.ctx = who.ctx,
                    !.request_type = request_type, !.request = request,
                    !.value = value, !.buffer = buffer, !.buffer0 = buffer,
                    !.ch = ch, !.caller = "waiting", !.task = "spawned",
                    !.control_type = decoded[1], !.recipient = decoded[2],
                    !.index = session.interface_number,
                    !.data = PayloadCopy(buffer)]]
    /\ UNCHANGED <<openArgs, openPc, openTrace, openResult, session, codec>>

\* UsbResetAsync when the future drove device.reset() itself
UsbResetAsyncInline(c) ==
    /\ openPc = "done"
    /\ FreeSlot(c)
    /\ CanRun("scheduler")
    /\ calls' = [calls EXCEPT ![c] =
          [NoCall EXCEPT
             !.kind = "reset", !.mode = "async", !.ctx = "scheduler",
             !.caller = "waiting", !.task = "none", !.issued = 1]]
    /\ UNCHANGED <<openArgs, openPc, openTrace, openResult, session, channels, codec>>

\* DfuAsyncIo::usb_reset up to the return of the future
UsbResetAsync(c) ==
    /\ openPc = "done"
    /\ FreeSlot(c)
    /\ CanRun("scheduler")
    /\ LET ch == NewChannelId
       IN  /\ channels' = [channels EXCEPT ![ch] = EmptyChannel]
           /\ calls' = [calls EXCEPT ![c] =
                 [NoCall EXCEPT
                    !.kind = "reset", !.mode = "async", !.ctx = "scheduler",
                    !.ch = ch, !.caller = "waiting", !.task = "spawned"]]
    /\ UNCHANGED <<openArgs, openPc, openTrace, openResult, session, codec>>

\* DfuIo::usb_reset: block_on(self.device.reset()) polls the reset future on
\* the calling thread; no channel, no task
UsbResetSync(c, ctx) ==
    /\ openPc = "done"
    /\ FreeSlot(c)
    /\ CanRun(ctx)
    /\ calls' = [calls EXCEPT ![c] =
          [NoCall EXCEPT
             !.kind = "reset", !.mode = "sync", !.ctx = ctx,
             !.caller = "waiting", !.task = "none", !.issued = 1]]
    /\ UNCHANGED <<openArgs, openPc, openTrace, openResult, session, channels, codec>>

\* TaskTransfer when the control-OUT task reads the caller's buffer instead
\* of its own copy
TaskTransferBorrowed(c) ==
    CASE calls[c].kind = "read" ->
           ControlIn(calls[c].control_type, calls[c].recipient, calls[c].request,
                     calls[c].value, calls[c].index, calls[c].length)
      [] calls[c].kind = "write" ->
           ControlOut(calls[c].control_type, calls[c].recipient, calls[c].request,
                      calls[c].value, calls[c].index, calls[c].buffer)
      [] OTHER -> NoTransfer

\* TaskTransfer when direction followed bit 7 of request_type and the index
\* was the interface number for Interface recipients only
TaskTransferByRequestType(c) ==
    LET index == IF calls[c].recipient = "Interface" THEN calls[c].index ELSE 0
    IN  CASE calls[c].kind \in {"read", "write"} /\ calls[c].request_type >= 128 ->
               ControlIn(calls[c].control_type, calls[c].recipient, calls[c].request,
                         calls[c].value, index, calls[c].length)
          [] calls[c].kind \in {"read", "write"} /\ calls[c].request_type < 128 ->
               ControlOut(calls[c].control_type, calls[c].recipient, calls[c].request,
                          calls[c].value, index, calls[c].data)
          [] OTHER -> NoTransfer

\* the transfer the spawned task of call c hands to the transport
TaskTransfer(c) ==
    CASE calls[c].kind = "read" ->
           ControlIn(calls[c].control_type, calls[c].recipient, calls[c].request,
                     calls[c].value, calls[c].index, calls[c].length)
      [] calls[c].kind = "write" ->
           ControlOut(calls[c].control_type, calls[c].recipient, calls[c].request,
                      calls[c].value, calls[c].index, calls[c].data)
      [] OTHER -> NoTransfer

\* TaskStart when the adapter let one transfer at a time onto the interface
TaskStartSerialized(c) ==
    /\ calls[c].task = "spawned"
    /\ ~SchedulerBlocked
    /\ \A d \in CallIds : calls[d].task # "inflight"
    /\ calls' = [calls EXCEPT ![c].task = "inflight",
                              ![c].xfer = TaskTransfer(c),
                              ![c].issued = @ + 1]
    /\ UNCHANGED <<openArgs, openPc, openTrace, openResult, session, channels, codec>>

\* first poll of the spawned task: the transport operation is started
TaskStart(c) ==
    /\ calls[c].task = "spawned"
    /\ ~SchedulerBlocked
    /\ calls' = [calls EXCEPT ![c].task = "inflight",
                              ![c].xfer = TaskTransfer(c),
                              ![c].issued = @ + 1]
    /\ UNCHANGED <<openArgs, openPc, openTrace, openResult, session, channels, codec>>

\* Send when the task sends its result a second time
SendTwice(ch, res) ==
    [channels EXCEPT ![ch].val = res, ![ch].sent = @ + 2, ![ch].taken = FALSE]

\* tx.send(res): fails when the receiver is gone
Send(ch, res) ==
    [channels EXCEPT ![ch].val = res, ![ch].sent = @ + 1, ![ch].taken = FALSE]

\* TaskComplete when a dropped receiver cancelled the task cleanly
TaskCompleteCancelled(c, res) ==
    /\ calls[c].task = "inflight"
    /\ ~SchedulerBlocked
    /\ IF channels[TxOf(c)].rxDropped
       THEN /\ calls' = [calls EXCEPT ![c].task = "done"]
            /\ UNCHANGED channels
       ELSE /\ calls' = [calls EXCEPT ![c].task = "done", ![c].tres = res]
            /\ channels' = Send(TxOf(c), res)
    /\ UNCHANGED <<openArgs, openPc, openTrace, openResult, session, codec>>

\* the transport operation of call c's task completes with res and the task
\* sends it: tx.send(res).expect(..)
TaskComplete(c, res) ==
    /\ calls[c].task = "inflight"
    /\ ~SchedulerBlocked
    /\ IF channels[TxOf(c)].rxDropped
       THEN /\ calls' = [calls EXCEPT ![c].task = "panicked", ![c].tres = res]
            /\ UNCHANGED channels
       ELSE /\ calls' = [calls EXCEPT ![c].task = "done", ![c].tres = res]
            /\ channels' = Send(TxOf(c), res)
    /\ UNCHANGED <<openArgs, openPc, openTrace, openResult, session, codec>>

\* CopyLen one short
CopyLenShort(bytes, buffer) ==
    IF Min(Len(bytes), Len(buffer)) > 0 THEN Min(Len(bytes), Len(buffer)) - 1 ELSE 0

\* buffer[..len].copy_from_slice(&bytes[..len]) with len = min(bytes.len(), buffer.len())
CopyLen(bytes, buffer) == Min(Len(bytes), Len(buffer))

CopyFromSlice(buffer, bytes, len) ==
    [i \in 1..Len(buffer) |-> IF i <= len THEN bytes[i] ELSE buffer[i]]

\* CallResult when a transport error is swallowed and reported as nothing done
CallResultMasking(kind, buffer, res) ==
    IF res.tag = "err" THEN (IF kind = "reset" THEN OkUnit ELSE OkCount(0))
    ELSE CASE kind = "read" -> OkCount(Min(Len(res.bytes), Len(buffer)))
           [] kind = "write" -> OkCount(res.n)
           [] OTHER -> OkUnit

\* what the awaiting half of a call makes of the value received from the
\* channel: the Result it returns
CallResult(kind, buffer, res) ==
    IF res.tag = "err" THEN FromTransportError(res.err.inner)
    ELSE CASE kind = "read" -> OkCount(CopyLen(res.bytes, buffer))
           [] kind = "write" -> OkCount(res.n)
           [] OTHER -> OkUnit

\* the caller's buffer after the awaiting half has run
BufferAfter(kind, buffer, res) ==
    IF kind = "read" /\ res.tag = "ok"
    THEN CopyFromSlice(buffer, res.bytes, CopyLen(res.bytes, buffer))
    ELSE buffer

\* rx.await (or block_on of it) yields the value and the call returns
Receive(c) ==
    /\ calls[c].caller = "waiting"
    /\ calls[c].ch # 0
    /\ calls[c].mode = "async" => ~SchedulerBlocked
    /\ channels[RxOf(c)].sent > 0
    /\ ~channels[RxOf(c)].taken
    /\ LET res == channels[RxOf(c)].val
       IN  calls' = [calls EXCEPT
                        ![c].caller = "returned",
                        ![c].result = CallResult(calls[c].kind, calls[c].buffer, res),
                        ![c].buffer = BufferAfter(calls[c].kind, calls[c].buffer, res)]
    /\ channels' = [channels EXCEPT ![RxOf(c)].taken = TRUE]
    /\ UNCHANGED <<openArgs, openPc, openTrace, openResult, session, codec>>

\* the runtime destroys the task of call c before it has sent: tx is dropped
\* with the task, no value in the channel
DestroyTask(c) ==
    /\ calls[c].task \in {"spawned", "inflight"}
    /\ calls[c].ch # 0
    /\ calls' = [calls EXCEPT ![c].task = "destroyed"]
    /\ channels' = [channels EXCEPT ![TxOf(c)].txDropped = TRUE]
    /\ UNCHANGED <<openArgs, openPc, openTrace, openResult, session, codec>>

\* ReceiveCanceled when the cancellation is handed to the caller as an error
ReceiveCanceledAsError(c) ==
    /\ calls[c].caller = "waiting"
    /\ calls[c].ch # 0
    /\ calls[c].mode = "async" => ~SchedulerBlocked
    /\ channels[RxOf(c)].sent = 0
    /\ channels[RxOf(c)].txDropped
    /\ calls' = [calls EXCEPT ![c].caller = "returned",
                              ![c].result = Err("Canceled", "-")]
    /\ UNCHANGED <<openArgs, openPc, openTrace, openResult, session, channels, codec>>

\* rx.await yields Err(Canceled) when tx was dropped without a value, and
\* .expect(..) on it panics in the caller
ReceiveCanceled(c) ==
    /\ calls[c].caller = "waiting"
    /\ calls[c].ch # 0
    /\ calls[c].mode = "async" => ~SchedulerBlocked
    /\ channels[RxOf(c)].sent = 0
    /\ channels[RxOf(c)].txDropped
    /\ calls' = [calls EXCEPT ![c].caller = "panicked"]
    /\ UNCHANGED <<openArgs, openPc, openTrace, openResult, session, channels, codec>>

\* block_on(self.device.reset()) returns with the transport's result
UsbResetSyncComplete(c, res) ==
    /\ calls[c].caller = "waiting"
    /\ calls[c].kind = "reset"
    /\ calls[c].mode = "sync"
    /\ calls' = [calls EXCEPT ![c].caller = "returned",
                              ![c].tres = res,
                              ![c].result = CallResult("reset", <<>>, res)]
    /\ UNCHANGED <<openArgs, openPc, openTrace, openResult, session, channels, codec>>

\* the caller drops the future of an asynchronous call before it completed:
\* the receiving end of the channel is dropped with it
DropFuture(c) ==
    /\ calls[c].caller = "waiting"
    /\ calls[c].mode = "async"
    /\ ~SchedulerBlocked
    /\ calls' = [calls EXCEPT ![c].caller = "dropped"]
    /\ channels' = [channels EXCEPT ![RxOf(c)].rxDropped = TRUE]
    /\ UNCHANGED <<openArgs, openPc, openTrace, openResult, session, codec>>

\* once the future is gone the borrow of the caller's buffer has ended and
\* the caller may write to it
Scribbled(buffer) == [i \in 1..Len(buffer) |-> 238]

CallerOverwritesBuffer(c) ==
    /\ calls[c].kind = "write"
    /\ calls[c].caller \in {"returned", "dropped"}
    /\ calls[c].buffer # Scribbled(calls[c].buffer)
    /\ calls' = [calls EXCEPT ![c].buffer = Scribbled(@)]
    /\ UNCHANGED <<openArgs, openPc, openTrace, openResult, session, channels, codec>>

\* the result has been consumed and the task has ended: the call and its
\* channel are gone
Retire(c) ==
    /\ calls[c].caller \in {"returned", "dropped"}
    /\ calls[c].task \in {"done", "none"}
    /\ calls' = [calls EXCEPT ![c] = NoCall]
    /\ channels' = IF calls[c].ch = 0 THEN channels
                   ELSE [channels EXCEPT ![calls[c].ch] = FreeChannel]
    /\ UNCHANGED <<openArgs, openPc, openTrace, openResult, session, codec>>

----------------------------------------------------------------------------
(* Inputs *)

\* (request_type, request, value) of a call: Class/Interface OUT and IN (the
\* DFU requests), Vendor/Endpoint, the reserved class 3 with recipient Other,
\* a reserved recipient with bit 7 set
Requests == {<<33, 1, 0>>, <<161, 2, 0>>, <<66, 1, 770>>, <<99, 9, 65535>>, <<159, 3, 5>>}

BufferOfLen(n) == [i \in 1..n |-> 100 + i]
PayloadOfLen(n) == [i \in 1..n |-> 50 + i]
ResponseOfLen(n) == [i \in 1..n |-> 10 + i]

ReadBuffers == {BufferOfLen(n) : n \in 0..MaxBuf}
WritePayloads == {PayloadOfLen(n) : n \in 0..MaxBuf}

\* what the transport may answer: control_in -> Result<Vec<u8>, Error>,
\* control_out -> Result<usize, Error>, reset -> Result<(), Error>
TransportFailures == {TransportErr(e) : e \in TransportErrors}

TransportResults(kind) ==
    CASE kind = "read" ->
           {OkBytes(ResponseOfLen(n)) : n \in 0..MaxResp} \cup TransportFailures
      [] kind = "write" -> {OkCount(n) : n \in 0..MaxBuf} \cup TransportFailures
      [] OTHER -> {OkUnit} \cup TransportFailures

----------------------------------------------------------------------------
(* Spec: one open followed by adapter calls made one at a time, as the     *)
(* protocol engine makes them.                                             *)

Init ==
    /\ openArgs \in [interface_number : InterfaceNumbers, alt_setting : AltSettings]
    /\ openPc = "start"
    /\ openTrace = <<>>
    /\ openResult = NoRes
    /\ session = NoSession
    /\ calls = [c \in CallIds |-> NoCall]
    /\ channels = [c \in CallIds |-> FreeChannel]
    /\ codec = [byte |-> 0, decoded |-> <<"-", "-">>]

Idle == \A c \in CallIds : calls[c] = NoCall

CallRead ==
    /\ Idle
    /\ \E c \in CallIds, who \in Callers, rq \in Requests, b \in ReadBuffers :
        ReadControl(c, who, rq[1], rq[2], rq[3], b)

CallWrite ==
    /\ Idle
    /\ \E c \in CallIds, who \in Callers, rq \in Requests, b \in WritePayloads :
        WriteControl(c, who, rq[1], rq[2], rq[3], b)

CallResetAsync == Idle /\ \E c \in CallIds : UsbResetAsync(c)

CallResetSync ==
    /\ Idle
    /\ \E c \in CallIds, ctx \in {"external", "scheduler"} : UsbResetSync(c, ctx)

RunTask == \E c \in CallIds : TaskStart(c)

FinishTask == \E c \in CallIds :
    \E res \in TransportResults(calls[c].kind) : TaskComplete(c, res)

FinishResetSync == \E c \in CallIds :
    \E res \in TransportResults("reset") : UsbResetSyncComplete(c, res)

Return == \E c \in CallIds : Receive(c)

Drop == \E c \in CallIds : DropFuture(c)

Overwrite == \E c \in CallIds : CallerOverwritesBuffer(c)

Forget == \E c \in CallIds : Retire(c)

Next ==
    \/ Open
    \/ CallRead
    \/ CallWrite
    \/ CallResetAsync
    \/ CallResetSync
    \/ RunTask
    \/ FinishTask
    \/ FinishResetSync
    \/ Return
    \/ Drop
    \/ Overwrite
    \/ Forget

Spec == Init /\ [][Next]_vars

----------------------------------------------------------------------------
(* SpecCodec: split_request_type applied to every request-type byte.       *)

InitCodec ==
    /\ openArgs = [interface_number |-> 0, alt_setting |-> 0]
    /\ openPc = "start"
    /\ openTrace = <<>>
    /\ openResult = NoRes
    /\ session = NoSession
    /\ calls = [c \in CallIds |-> NoCall]
    /\ channels = [c \in CallIds |-> FreeChannel]
    /\ codec \in {[byte |-> b, decoded |-> <<"-", "-">>] : b \in 0..255}

Decode ==
    /\ codec.decoded = <<"-", "-">>
    /\ codec' = [codec EXCEPT !.decoded = split_request_type(codec.byte)]
    /\ UNCHANGED <<openArgs, openPc, openTrace, openResult, session, calls, channels>>

NextCodec == Decode

SpecCodec == InitCodec /\ [][NextCodec]_vars

----------------------------------------------------------------------------
(* SpecConc: an opened session on which the caller makes overlapping       *)
(* calls that go through a channel and a spawned task; up to MaxCalls      *)
(* calls are alive at a time.                                              *)

GoodDescriptorBytes == <<9, 33, 11, 255, 0, 0, 8, 16, 1>>

InitConc ==
    /\ openArgs = [interface_number |-> 1, alt_setting |-> 0]
    /\ openPc = "done"
    /\ openTrace = <<Issued(SetInterfaceTransfer),
                     Completed(SetInterfaceTransfer, OkCount(0)),
                     Issued(GetDescriptorTransfer),
                     Completed(GetDescriptorTransfer, OkBytes(GoodDescriptorBytes)),
                     FromBytes(GoodDescriptorBytes),
                     ProtocolNew("", <<1, 16>>)>>
    /\ openResult = OkUnit
    /\ session = [interface_number |-> openArgs.interface_number,
                  descriptor |-> DecodeDescriptor(GoodDescriptorBytes),
                  protocol |-> [interface_string |-> "", version |-> <<1, 16>>]]
    /\ calls = [c \in CallIds |-> NoCall]
    /\ channels = [c \in CallIds |-> FreeChannel]
    /\ codec = [byte |-> 0, decoded |-> <<"-", "-">>]

ConcResults(kind) ==
    CASE kind = "read" -> {OkBytes(ResponseOfLen(1)), TransportErr("Disconnected")}
      [] kind = "write" -> {OkCount(1), TransportErr("TransferError")}
      [] OTHER -> {OkUnit, TransportErr("Disconnected")}

ConcRead ==
    \E c \in CallIds, who \in Callers :
        ReadControl(c, who, 161, 2, 0, BufferOfLen(1))

ConcWrite ==
    \E c \in CallIds, who \in Callers :
        WriteControl(c, who, 33, 1, 0, PayloadOfLen(1))

ConcResetAsync == \E c \in CallIds : UsbResetAsync(c)

ConcFinishTask == \E c \in CallIds :
    \E res \in ConcResults(calls[c].kind) : TaskComplete(c, res)

NextConc ==
    \/ ConcRead
    \/ ConcWrite
    \/ ConcResetAsync
    \/ RunTask
    \/ ConcFinishTask
    \/ Return
    \/ Drop
    \/ Forget

SpecConc == InitConc /\ [][NextConc]_vars

----------------------------------------------------------------------------
(* Properties of open *)

IsSetInterface(e) == e.xfer.dir = "out" /\ e.xfer.request = SET_INTERFACE
IsGetDescriptor(e) == e.xfer.dir = "in" /\ e.xfer.request = GET_DESCRIPTOR
IsSetInterfaceOk(e) == e.ev = "complete" /\ IsSetInterface(e) /\ e.res.tag = "ok"
IsSetInterfaceErr(e) == e.ev = "complete" /\ IsSetInterface(e) /\ e.res.tag = "err"
IsGetDescriptorIssue(e) == e.ev = "issue" /\ IsGetDescriptor(e)
IsGetDescriptorOk(e) == e.ev = "complete" /\ IsGetDescriptor(e) /\ e.res.tag = "ok"
IsFromBytes(e) == e.ev = "from_bytes"
IsProtocolNew(e) == e.ev = "protocol_new"

TraceIdx == 1..Len(openTrace)

\* the three steps of open, in their order, before position i of the trace
StepsBefore(i) ==
    \E j, k, m \in TraceIdx :
        /\ j < k /\ k < m /\ m < i
        /\ IsSetInterfaceOk(openTrace[j])
        /\ IsGetDescriptorOk(openTrace[k])
        /\ IsFromBytes(openTrace[m])

\* C1: in open the SET_INTERFACE transfer has completed successfully before
\* GET_DESCRIPTOR is issued, both the alternate-setting selection and the
\* descriptor fetch and parse have completed before DfuProtocol::new is
\* invoked, and a session is returned only after all three, in that order.
C1_OpenOrder ==
    /\ \A i \in TraceIdx :
         IsGetDescriptorIssue(openTrace[i]) =>
            \E j \in TraceIdx : j < i /\ IsSetInterfaceOk(openTrace[j])
    /\ \A i \in TraceIdx : IsProtocolNew(openTrace[i]) => StepsBefore(i)
    /\ (openPc = "done" \/ session # NoSession \/ openResult.tag = "ok") =>
         \E i \in TraceIdx : IsProtocolNew(openTrace[i]) /\ StepsBefore(i)

C1_Witness ==
    /\ openPc = "done"
    /\ session.interface_number = 1
    /\ Len(openTrace) = 6

\* C2: if the transport rejects the SET_INTERFACE transfer, open fails with
\* AltSettingNotFound and issues no GET_DESCRIPTOR transfer.
C2_AltSettingNotFound ==
    (\E i \in TraceIdx : IsSetInterfaceErr(openTrace[i])) =>
        /\ openResult = Err("AltSettingNotFound", "-")
        /\ \A j \in TraceIdx : ~IsGetDescriptorIssue(openTrace[j])

FetchedOk == \E i \in TraceIdx : IsGetDescriptorOk(openTrace[i])
FetchedBytes ==
    openTrace[CHOOSE i \in TraceIdx : IsGetDescriptorOk(openTrace[i])].res.bytes
HasTypeByte(bytes) == Len(bytes) >= 2 /\ bytes[2] = 33
NoProtocolBuilt == \A i \in TraceIdx : ~IsProtocolNew(openTrace[i])

RejectedAsDescriptor ==
    /\ openPc = "failed"
    /\ openResult.err.variant \in {"FunctionalDescriptorNotFound", "FunctionalDescriptor"}
    /\ session = NoSession

\* the fields of a functional descriptor, read off its bytes
ExpectedDescriptor(b) ==
    [can_download |-> b[3] % 2 = 1,
     can_upload |-> (b[3] \div 2) % 2 = 1,
     manifestation_tolerant |-> (b[3] \div 4) % 2 = 1,
     will_detach |-> (b[3] \div 8) % 2 = 1,
     detach_timeout |-> b[5] * 256 + b[4],
     transfer_size |-> b[7] * 256 + b[6],
     dfu_version |-> <<b[9], b[8]>>]

\* C4 as claimed: every fetched byte sequence whose length is not 9 or whose
\* type byte is not 0x21 makes open fail with FunctionalDescriptorNotFound
\* or FunctionalDescriptor and return no session.
C4_MalformedRejected ==
    (FetchedOk /\ (Len(FetchedBytes) # 9 \/ ~HasTypeByte(FetchedBytes))) =>
        RejectedAsDescriptor

\* C4 as amended: every fetched byte sequence shorter than 9 bytes or whose
\* type byte is not 0x21 makes open fail with FunctionalDescriptorNotFound
\* or FunctionalDescriptor and return no session; a sequence longer than 9
\* bytes with type byte 0x21 is not rejected as a descriptor: a session
\* returned for it holds the descriptor decoded from its first nine bytes.
C4_ShortOrWrongTypeRejected ==
    /\ (FetchedOk /\ (Len(FetchedBytes) < 9 \/ ~HasTypeByte(FetchedBytes))) =>
          RejectedAsDescriptor
    /\ (FetchedOk /\ Len(FetchedBytes) > 9 /\ HasTypeByte(FetchedBytes)) =>
          /\ ~RejectedAsDescriptor
          /\ openPc = "done" =>
               functional_descriptor = ExpectedDescriptor(SubSeq(FetchedBytes, 1, 9))

C4_Witness ==
    /\ FetchedOk
    /\ Len(FetchedBytes) > 9
    /\ HasTypeByte(FetchedBytes)
    /\ openPc = "done"

\* what C5 says of a state in which open has returned a session
C5_SessionState ==
    openPc = "done" =>
        /\ FetchedOk
        /\ functional_descriptor = ExpectedDescriptor(FetchedBytes)
        /\ protocol = [interface_string |-> "",
                       version |-> <<FetchedBytes[9], FetchedBytes[8]>>]
        /\ Cardinality({i \in TraceIdx : IsProtocolNew(openTrace[i])}) = 1
        /\ \A i \in TraceIdx :
             IsProtocolNew(openTrace[i]) =>
                /\ openTrace[i].interface_string = ""
                /\ openTrace[i].version = functional_descriptor.dfu_version

\* C5: a session returned by open holds the descriptor decoded from the
\* fetched bytes and a protocol constructed exactly once from that
\* descriptor's DFU version and an empty interface string, and no later
\* read_control, write_control or usb_reset, successful or failing, changes
\* what functional_descriptor() and protocol() return.
C5_SessionImmutable ==
    /\ [](C5_SessionState)
    /\ [][openPc = "done" =>
            /\ functional_descriptor' = functional_descriptor
            /\ protocol' = protocol
            /\ openTrace' = openTrace
            /\ openPc' = "done"]_vars

C5_Witness ==
    /\ openPc = "done"
    /\ functional_descriptor.transfer_size = 1024
    /\ protocol.version = <<1, 26>>
    /\ \E c \in CallIds :
         /\ calls[c].kind = "read"
         /\ calls[c].caller = "returned"
         /\ calls[c].result.tag = "err"

----------------------------------------------------------------------------
(* Properties of the adapter calls *)

Live(c) == calls[c].kind # "-"

\* C6: a read_control (sync or async) whose control-IN returned r bytes into
\* a buffer of length b copies the first min(r, b) received bytes to the
\* start of the buffer, leaves the rest of the buffer as it was, and returns
\* Ok(min(r, b)), also when r > b.
C6_ReadCopiesPrefix ==
    \A c \in CallIds :
        (calls[c].kind = "read" /\ calls[c].caller = "returned"
            /\ calls[c].tres.tag = "ok") =>
        LET r == Len(calls[c].tres.bytes)
            b == Len(calls[c].buffer0)
            m == IF r < b THEN r ELSE b
        IN  /\ calls[c].result = OkCount(m)
            /\ Len(calls[c].buffer) = b
            /\ \A i \in 1..b :
                 calls[c].buffer[i] = IF i <= m THEN calls[c].tres.bytes[i]
                                      ELSE calls[c].buffer0[i]

C6_Witness ==
    \E c \in CallIds :
        /\ calls[c].kind = "read"
        /\ calls[c].caller = "returned"
        /\ Len(calls[c].tres.bytes) = 3
        /\ Len(calls[c].buffer0) = 2
        /\ calls[c].result = OkCount(2)

\* C7: the payload a write_control (sync or async) hands to the transport's
\* control-OUT is the caller's buffer as it was when the call was made,
\* whatever the caller does to the buffer afterwards, and on transport
\* success the call returns the byte count the transport reported.
C7_WritePayloadIsCopy ==
    \A c \in CallIds :
        calls[c].kind = "write" =>
            /\ calls[c].issued > 0 =>
                 /\ calls[c].xfer.dir = "out"
                 /\ calls[c].xfer.data = calls[c].buffer0
            /\ (calls[c].caller = "returned" /\ calls[c].tres.tag = "ok") =>
                 calls[c].result = OkCount(calls[c].tres.n)

C7_Witness ==
    \E c \in CallIds :
        /\ calls[c].kind = "write"
        /\ calls[c].caller = "dropped"
        /\ Len(calls[c].buffer0) = 2
        /\ calls[c].buffer # calls[c].buffer0
        /\ calls[c].task = "inflight"
        /\ calls[c].xfer.data = calls[c].buffer0

\* C8: for every request-type byte split_request_type returns the class
\* given by bits 5-6 (0 Standard, 1 Class, 2 Vendor, 3 Standard) and the
\* recipient given by bits 0-4 (0 Device, 1 Interface, 2 Endpoint, 3 Other,
\* 4..31 Device), whatever bit 7 is; it always returns a pair.
C8_SplitRequestType ==
    codec.decoded # <<"-", "-">> =>
        LET low7 == IF codec.byte >= 128 THEN codec.byte - 128 ELSE codec.byte
            class == CASE low7 \in 0..31 -> "Standard"
                       [] low7 \in 32..63 -> "Class"
                       [] low7 \in 64..95 -> "Vendor"
                       [] OTHER -> "Standard"
            low5 == low7 - 32 * (low7 \div 32)
            recipient == CASE low5 = 0 -> "Device"
                           [] low5 = 1 -> "Interface"
                           [] low5 = 2 -> "Endpoint"
                           [] low5 = 3 -> "Other"
                           [] OTHER -> "Device"
        IN  /\ codec.decoded = <<class, recipient>>
            /\ codec.decoded[1] \in {"Standard", "Class", "Vendor"}
            /\ codec.decoded[2] \in {"Device", "Interface", "Endpoint", "Other"}

C8_Witness ==
    /\ codec.byte = 161
    /\ codec.decoded = <<"Class", "Interface">>

\* C9: when the transport operation of a read_control, write_control or
\* usb_reset (sync or async) fails with error e, the call returns Err with
\* that e in the transport-error variant; the transport operation is invoked
\* once per call and no failure is turned into a success; a failed
\* read_control leaves the destination buffer unchanged.
C9_ErrorsForwarded ==
    \A c \in CallIds :
        Live(c) =>
            /\ calls[c].issued <= 1
            /\ calls[c].caller = "returned" =>
                 /\ calls[c].issued = 1
                 /\ calls[c].tres.tag \in {"ok", "err"}
                 /\ calls[c].result.tag = calls[c].tres.tag
                 /\ calls[c].tres.tag = "err" =>
                      /\ calls[c].result = Err("WebUsb", calls[c].tres.err.inner)
                      /\ calls[c].tres.err.inner \in TransportErrors
                      /\ calls[c].kind = "read" => calls[c].buffer = calls[c].buffer0

C9_Witness ==
    \E c \in CallIds :
        /\ calls[c].kind = "read"
        /\ calls[c].caller = "returned"
        /\ calls[c].tres = TransportErr("TransferError")
        /\ calls[c].result = Err("WebUsb", "TransferError")
        /\ Len(calls[c].buffer0) = 2

\* C10: when calls on one session overlap, each call's channel carries at
\* most one value, the value is the result of the transport operation of the
\* task that this call spawned, and the result a call returns is made from
\* that value: no call sees the result of another call's transfer.
C10_NoCrossTalk ==
    \A c \in CallIds :
        (Live(c) /\ calls[c].ch # 0) =>
            LET ch == channels[calls[c].ch]
            IN  /\ \A d \in CallIds : (d # c /\ Live(d)) => calls[d].ch # calls[c].ch
                /\ ch.sent <= 1
                /\ ch.sent = 1 =>
                     /\ calls[c].task = "done"
                     /\ ch.val = calls[c].tres
                /\ calls[c].caller = "returned" =>
                     /\ ch.sent = 1
                     /\ ch.taken
                     /\ calls[c].result.tag = calls[c].tres.tag
                     /\ calls[c].tres.tag = "err" =>
                          calls[c].result.err.inner = calls[c].tres.err.inner
                     /\ (calls[c].tres.tag = "ok" /\ calls[c].kind = "read") =>
                          /\ calls[c].result.n =
                               Min(Len(calls[c].tres.bytes), Len(calls[c].buffer0))
                          /\ \A i \in 1..calls[c].result.n :
                               calls[c].buffer[i] = calls[c].tres.bytes[i]
                     /\ (calls[c].tres.tag = "ok" /\ calls[c].kind = "write") =>
                          calls[c].result.n = calls[c].tres.n

C10_Witness ==
    \E c, d \in CallIds :
        /\ c # d
        /\ calls[c].kind = "read" /\ calls[d].kind = "read"
        /\ calls[c].mode = "async" /\ calls[d].mode = "async"
        /\ calls[c].task = "done" /\ calls[d].task = "done"
        /\ calls[c].caller = "returned" /\ calls[d].caller = "waiting"
        /\ calls[c].result.tag = "err"
        /\ channels[calls[d].ch].val = OkBytes(ResponseOfLen(1))
        /\ channels[calls[d].ch].sent = 1

----------------------------------------------------------------------------
(* SpecFair: Spec with the scheduling the runtime provides: a spawned task *)
(* that can run is run, a transport operation in flight completes, and a   *)
(* waiting caller whose channel holds a value is resumed.                  *)

SpecFair ==
    /\ Init
    /\ [][Next]_vars
    /\ WF_vars(RunTask)
    /\ WF_vars(FinishTask)
    /\ WF_vars(Return)

IsSyncTransfer(c, ctx) ==
    /\ calls[c].kind \in {"read", "write"}
    /\ calls[c].mode = "sync"
    /\ calls[c].ctx = ctx

\* a synchronous transfer made from the scheduler's own thread is stuck:
\* the caller waits, its task was spawned but never ran and never sent
C11_Stuck ==
    \A c \in CallIds :
        IsSyncTransfer(c, "scheduler") =>
            /\ calls[c].caller = "waiting"
            /\ calls[c].task = "spawned"
            /\ calls[c].issued = 0
            /\ channels[calls[c].ch].sent = 0
            /\ calls[c].result = NoRes

\* C11: a synchronous read_control or write_control made from inside the
\* scheduler's own task context never returns: the caller blocks the only
\* thread, so the spawned task never runs and never sends; made from an
\* external blocking caller while the scheduler keeps running, it returns.
C11_SyncFromSchedulerDeadlocks ==
    /\ [](C11_Stuck)
    /\ \A c \in CallIds :
         (IsSyncTransfer(c, "external") /\ calls[c].caller = "waiting")
            ~> (calls[c].caller = "returned")

C11_Witness ==
    \E c \in CallIds :
        /\ IsSyncTransfer(c, "scheduler")
        /\ calls[c].kind = "read"
        /\ calls[c].caller = "waiting"
        /\ calls[c].task = "spawned"
        /\ ~ENABLED Next

----------------------------------------------------------------------------
(* SpecConcFair: SpecConc with the scheduling the runtime provides, call   *)
(* by call: each spawned task is run, each transport operation in flight   *)
(* completes, each awaiting caller whose channel holds a value is resumed. *)

\* one transport result per kind of call: whether a call completes does
\* not depend on what the transport answered
FairResults(kind) ==
    CASE kind = "read" -> {OkBytes(ResponseOfLen(1))}
      [] kind = "write" -> {TransportErr("TransferError")}
      [] OTHER -> {OkUnit}

FairFinishTask == \E c \in CallIds :
    \E res \in FairResults(calls[c].kind) : TaskComplete(c, res)

NextConcFair ==
    \/ ConcRead
    \/ ConcWrite
    \/ ConcResetAsync
    \/ RunTask
    \/ FairFinishTask
    \/ Return
    \/ Drop
    \/ Forget

SpecConcFair ==
    /\ InitConc
    /\ [][NextConcFair]_vars
    /\ \A c \in CallIds :
         /\ WF_vars(TaskStart(c))
         /\ WF_vars(\E res \in FairResults(calls[c].kind) : TaskComplete(c, res))
         /\ WF_vars(Receive(c))

IsAwaited(c) == calls[c].mode = "async" /\ calls[c].caller = "waiting"

\* some block_on is being made on the scheduler's own thread
BlockingCallPending ==
    \E d \in CallIds : IsSyncTransfer(d, "scheduler") /\ calls[d].caller = "waiting"

\* awaiting callers hold nothing: every spawned task, the awaiting caller's
\* own included, can be run
C12_AwaitLetsTasksRun ==
    \A c, d \in CallIds :
        (IsAwaited(c) /\ calls[d].task = "spawned" /\ ~BlockingCallPending)
            => ENABLED TaskStart(d)

\* C12: an asynchronous read_control, write_control or usb_reset awaited from
\* within the scheduler completes, given that the scheduler runs spawned
\* tasks, the transport operation completes and the caller keeps awaiting
\* (it completes, or the caller dropped the future, or the scheduler's
\* thread was taken by a block_on); while it waits the caller does not keep
\* any task, its own included, from running.
C12_AsyncCompletes ==
    /\ [](C12_AwaitLetsTasksRun)
    /\ \A c \in CallIds :
         IsAwaited(c) ~> (\/ calls[c].caller = "returned"
                          \/ calls[c].caller = "dropped"
                          \/ BlockingCallPending)

C12_Witness ==
    \E c, d \in CallIds :
        /\ c # d
        /\ calls[c].mode = "async"
        /\ calls[c].caller = "returned"
        /\ calls[c].result.tag = "ok"
        /\ IsAwaited(d)
        /\ calls[d].task = "inflight"

----------------------------------------------------------------------------
(* Properties of the handoff channels *)

HasHandoff(c) == Live(c) /\ (calls[c].kind = "reset" => calls[c].mode = "async")

TaskFinished(c) == calls[c].task \in {"done", "panicked"}

\* one channel and one task for each call, the channel held by no other call
C13_OneChannelOneTask ==
    \A c \in CallIds :
        HasHandoff(c) =>
            /\ calls[c].ch \in CallIds
            /\ channels[calls[c].ch].live
            /\ calls[c].task \in {"spawned", "inflight", "done", "panicked"}
            /\ calls[c].issued <= 1
            /\ \A d \in CallIds : (d # c /\ Live(d)) => calls[d].ch # calls[c].ch

C13_AtMostOneSent == \A ch \in CallIds : channels[ch].sent <= 1

\* the channel a call starts with is one that nothing was sent on and that
\* no call held
C13_FreshChannel ==
    \A c \in CallIds :
        (~Live(c) /\ HasHandoff(c)') =>
            /\ ~channels[calls'[c].ch].live
            /\ channels'[calls'[c].ch] = EmptyChannel

\* C13 as stated: at most one value sent on each channel, and once the task
\* of a call has finished its transport operation exactly one value has been
\* sent on the call's channel.
C13_ExactlyOneSent ==
    /\ C13_AtMostOneSent
    /\ \A c \in CallIds :
         (HasHandoff(c) /\ TaskFinished(c)) => channels[calls[c].ch].sent = 1

\* C13: each read_control, write_control and asynchronous usb_reset call
\* creates one channel and spawns one task, the channel is fresh and is held
\* by no other call, and at most one value is ever sent on it; once the task
\* has finished its transport operation exactly one value has been sent,
\* unless the receiver had been dropped by then: in that case the send
\* fails, no value is sent and the task panics.
C13_OneSendPerChannel ==
    /\ [](C13_OneChannelOneTask /\ C13_AtMostOneSent)
    /\ [](\A c \in CallIds :
            (HasHandoff(c) /\ TaskFinished(c)) =>
                IF calls[c].task = "done"
                THEN channels[calls[c].ch].sent = 1
                ELSE /\ channels[calls[c].ch].sent = 0
                     /\ channels[calls[c].ch].rxDropped)
    /\ [](\A c \in CallIds :
            (HasHandoff(c) /\ ~TaskFinished(c)) => channels[calls[c].ch].sent = 0)
    /\ [][C13_FreshChannel]_vars

C13_Witness ==
    \E c, d \in CallIds :
        /\ c # d
        /\ HasHandoff(c) /\ HasHandoff(d)
        /\ calls[c].task = "done" /\ channels[calls[c].ch].sent = 1
        /\ calls[d].task = "panicked" /\ channels[calls[d].ch].sent = 0

----------------------------------------------------------------------------
(* SpecFault: overlapping calls on an opened session where the runtime may *)
(* destroy a spawned task before it has sent.                              *)

Destroy == \E c \in CallIds : DestroyTask(c)

Cancel == \E c \in CallIds : ReceiveCanceled(c)

NextFault ==
    \/ ConcRead
    \/ ConcWrite
    \/ ConcResetAsync
    \/ RunTask
    \/ FairFinishTask
    \/ Return
    \/ Drop
    \/ Forget
    \/ Destroy
    \/ Cancel

SpecFault == InitConc /\ [][NextFault]_vars

SenderDroppedEmpty(c) ==
    /\ HasHandoff(c)
    /\ channels[calls[c].ch].txDropped
    /\ channels[calls[c].ch].sent = 0

\* C14: when the sending side of a call's handoff was dropped without a
\* value (its task was destroyed before sending), the waiting call ends in a
\* panic: it never returns, neither a typed Err nor Ok, and a caller still
\* waiting can only be resumed into the panic.
C14_SenderDroppedPanics ==
    \A c \in CallIds :
        /\ SenderDroppedEmpty(c) =>
             /\ calls[c].task = "destroyed"
             /\ calls[c].caller \in {"waiting", "panicked", "dropped"}
             /\ calls[c].result = NoRes
             /\ calls[c].buffer = calls[c].buffer0
             /\ (calls[c].caller = "waiting" /\ CanRun(calls[c].ctx)) =>
                    /\ ENABLED ReceiveCanceled(c)
                    /\ ~ENABLED Receive(c)
        /\ (Live(c) /\ calls[c].caller = "panicked") => SenderDroppedEmpty(c)

C14_Witness ==
    \E c \in CallIds :
        /\ calls[c].kind = "read"
        /\ calls[c].task = "destroyed"
        /\ calls[c].issued = 1
        /\ calls[c].caller = "panicked"

----------------------------------------------------------------------------
(* Overlapping calls *)

\* C15: the adapter does not serialize calls: while one call's transfer is
\* outstanding a second asynchronous call can be made, and its task can start
\* its own transfer on the same interface; nothing in the adapter makes the
\* second wait for the first.
C15_NotSerialized ==
    \A c, d \in CallIds :
        (c # d /\ calls[c].task = "inflight" /\ ~SchedulerBlocked) =>
            /\ FreeSlot(d) =>
                 \E who \in Callers :
                    /\ who.mode = "async"
                    /\ ENABLED ReadControl(d, who, 161, 2, 0, BufferOfLen(1))
                    /\ ENABLED WriteControl(d, who, 33, 1, 0, PayloadOfLen(1))
            /\ calls[d].task = "spawned" => ENABLED TaskStart(d)

C15_Witness ==
    \E c, d \in CallIds :
        /\ c # d
        /\ calls[c].mode = "async" /\ calls[d].mode = "async"
        /\ calls[c].kind = "read" /\ calls[d].kind = "write"
        /\ calls[c].caller = "waiting" /\ calls[d].caller = "waiting"
        /\ calls[c].task = "inflight" /\ calls[d].task = "inflight"
        /\ calls[c].xfer.index = session.interface_number
        /\ calls[d].xfer.index = session.interface_number

----------------------------------------------------------------------------
(* Dropped futures *)

ReceiverDroppedEmpty(c) ==
    /\ HasHandoff(c)
    /\ calls[c].caller = "dropped"
    /\ channels[calls[c].ch].sent = 0

\* the task exists from the moment the call is made, before any poll
C16_SpawnedAtCall ==
    \A c \in CallIds :
        (~Live(c) /\ HasHandoff(c)') =>
            /\ calls'[c].task = "spawned"
            /\ calls'[c].caller = "waiting"
            /\ calls'[c].issued = 0

\* dropping the future leaves the task as it was
C16_DropKeepsTask ==
    \A c \in CallIds :
        (calls[c].caller = "waiting" /\ calls'[c].caller = "dropped") =>
            /\ calls'[c].task = calls[c].task
            /\ calls'[c].issued = calls[c].issued

\* a task whose receiver is gone goes on to its transport operation and
\* then to the failed send, nowhere else
C16_TaskGoesOn ==
    \A c \in CallIds :
        ReceiverDroppedEmpty(c) =>
            /\ calls[c].task \in {"spawned", "inflight", "panicked"}
            /\ (calls[c].task = "spawned" /\ ~SchedulerBlocked) => ENABLED TaskStart(c)
            /\ calls[c].task = "panicked" =>
                 /\ calls[c].issued = 1
                 /\ calls[c].kind # "reset" => calls[c].xfer # NoTransfer
                 /\ calls[c].tres # NoRes

\* C16: a transfer cannot be cancelled once spawned: the task is spawned when
\* read_control, write_control or usb_reset is called, before the returned
\* future is polled; when the caller drops the future before completion the
\* task still performs its transport operation, and its send then fails and
\* the task panics with 'receiver dropped' instead of ending cleanly.
C16_NotCancellable ==
    /\ [][C16_SpawnedAtCall /\ C16_DropKeepsTask]_vars
    /\ [](C16_TaskGoesOn)
    /\ [](\A c \in CallIds :
            (Live(c) /\ calls[c].task = "panicked") => ReceiverDroppedEmpty(c))
    /\ \A c \in CallIds :
         ReceiverDroppedEmpty(c) ~> (calls[c].task = "panicked" \/ BlockingCallPending)

C16_Witness ==
    \E c \in CallIds :
        /\ ReceiverDroppedEmpty(c)
        /\ calls[c].issued = 1
        /\ calls[c].task = "panicked"

----------------------------------------------------------------------------
(* Device reset *)

IsReset(c) == calls[c].kind = "reset"

\* the call went through a channel and a task, and what it returned is what
\* was received from the channel
ViaHandoff(c) ==
    /\ calls[c].ch \in CallIds
    /\ channels[calls[c].ch].live
    /\ calls[c].task \in {"spawned", "inflight", "done", "panicked"}
    /\ calls[c].caller = "returned" =>
         /\ calls[c].task = "done"
         /\ channels[calls[c].ch].sent = 1
         /\ channels[calls[c].ch].taken
         /\ calls[c].result = CallResult("reset", <<>>, channels[calls[c].ch].val)

\* the call drove device.reset() on the calling thread: no channel, no task
Direct(c) ==
    /\ calls[c].ch = 0
    /\ calls[c].task = "none"
    /\ calls[c].issued = 1
    /\ \A ch \in CallIds : ~channels[ch].live
    /\ calls[c].caller = "returned" =>
         calls[c].result = CallResult("reset", <<>>, calls[c].tres)

NoPayloadBack(c) ==
    /\ calls[c].buffer = <<>>
    /\ calls[c].xfer = NoTransfer
    /\ calls[c].result.bytes = <<>>
    /\ calls[c].result.n = 0

\* C17 as stated: every usb_reset call, synchronous as well as asynchronous,
\* goes through a handoff and a spawned task, and copies no payload back.
C17_ResetAlwaysHandoff ==
    \A c \in CallIds : IsReset(c) => (ViaHandoff(c) /\ NoPayloadBack(c))

\* C17: the asynchronous usb_reset creates a single-use handoff, spawns a
\* task that performs the device reset and sends its result, and the caller
\* gets the result only by waiting on the handoff; the synchronous usb_reset
\* creates no handoff and spawns no task: it drives device.reset() on the
\* calling thread and returns its result. Neither copies a payload back.
C17_ResetShape ==
    \A c \in CallIds :
        IsReset(c) =>
            /\ calls[c].mode = "async" => ViaHandoff(c)
            /\ calls[c].mode = "sync" => Direct(c)
            /\ NoPayloadBack(c)

C17_Witness ==
    \E c \in CallIds :
        /\ IsReset(c)
        /\ calls[c].mode = "sync"
        /\ calls[c].caller = "returned"
        /\ calls[c].result = FromTransportError("Disconnected")
        /\ Direct(c)

----------------------------------------------------------------------------
(* The transfers of open, field by field *)

IssuedByOpen == {i \in TraceIdx : openTrace[i].ev = "issue"}

ExpectedSetInterface ==
    [dir |-> "out", control_type |-> "Standard", recipient |-> "Interface",
     request |-> 11, value |-> openArgs.alt_setting,
     index |-> openArgs.interface_number, data |-> <<>>, length |-> 0]

ExpectedGetDescriptor ==
    [dir |-> "in", control_type |-> "Standard", recipient |-> "Interface",
     request |-> 6, value |-> 8448,
     index |-> openArgs.interface_number, data |-> <<>>, length |-> 9]

TimesIssued(xfer) == Cardinality({i \in IssuedByOpen : openTrace[i].xfer = xfer})

\* C18: open issues a SET_INTERFACE control-OUT (Standard, Interface, value =
\* alt_setting, index = interface_number, empty payload) and a GET_DESCRIPTOR
\* control-IN (Standard, Interface, value = 0x2100, index = interface_number,
\* length 9) and no other transfer; neither is ever issued twice, and an open
\* that got past the SET_INTERFACE, in particular one that returned a session,
\* has issued each exactly once.
C18_OpenTransferFields ==
    /\ \A i \in IssuedByOpen :
         openTrace[i].xfer \in {ExpectedSetInterface, ExpectedGetDescriptor}
    /\ TimesIssued(ExpectedSetInterface) <= 1
    /\ TimesIssued(ExpectedGetDescriptor) <= 1
    /\ TimesIssued(ExpectedGetDescriptor) <= TimesIssued(ExpectedSetInterface)
    /\ openPc \in {"alt_wait", "alt_set"} =>
         /\ TimesIssued(ExpectedSetInterface) = 1
         /\ TimesIssued(ExpectedGetDescriptor) = 0
    /\ openPc \in {"desc_wait", "done"} =>
         /\ TimesIssued(ExpectedSetInterface) = 1
         /\ TimesIssued(ExpectedGetDescriptor) = 1

C18_Witness ==
    /\ openPc = "done"
    /\ openArgs.alt_setting = 1
    /\ openArgs.interface_number = 0
    /\ TimesIssued(ExpectedSetInterface) = 1
    /\ TimesIssued(ExpectedGetDescriptor) = 1

----------------------------------------------------------------------------
(* SpecWide: read_control calls, one at a time on an opened session, with  *)
(* destination buffers around the 16-bit limit of the length field.        *)

WideLengths == {0, 1, 65535, 65536, 65537, 131072}

\* (\o <<>> keeps the value a sequence, whose length is known)
WideBuffer(n) == [i \in 1..n |-> 100 + (i % 7)] \o <<>>

WideResponse(n) == [i \in 1..n |-> 10 + (i % 5)] \o <<>>

\* what the transport may answer to the control-IN of call c: nothing, one
\* byte, as many bytes as were asked for, as many as the buffer holds, one
\* more than that, or an error
WideResults(c) ==
    {OkBytes(WideResponse(n)) :
        n \in {0, 1, calls[c].length, Len(calls[c].buffer0), Len(calls[c].buffer0) + 1}}
    \cup {TransportErr("TransferError")}

WideRead ==
    /\ Idle
    /\ \E c \in CallIds, who \in Callers, n \in WideLengths :
         ReadControl(c, who, 161, 2, 0, WideBuffer(n))

WideFinishTask == \E c \in CallIds :
    \E res \in WideResults(c) : TaskComplete(c, res)

NextWide ==
    \/ WideRead
    \/ RunTask
    \/ WideFinishTask
    \/ Return
    \/ Forget

SpecWide == InitConc /\ [][NextWide]_vars

\* C19: read_control asks the transport for buffer.len() mod 65536 bytes, so
\* for a buffer of 65536 bytes or more it asks for fewer bytes than the
\* buffer holds (0 for exactly 65536); for every buffer length the number of
\* bytes copied and returned is at most buffer.len(), and is buffer.len()
\* only if the transport returned at least that many bytes.
C19_RequestedLength ==
    \A c \in CallIds :
        (Live(c) /\ calls[c].kind = "read") =>
            LET blen == Len(calls[c].buffer0)
                asked == calls[c].length
            IN  /\ asked \in 0..65535
                /\ \E q \in 0..2 : blen = (q * 65536) + asked
                /\ blen >= 65536 => asked < blen
                /\ blen = 65536 => asked = 0
                /\ calls[c].issued = 1 =>
                     /\ calls[c].xfer.dir = "in"
                     /\ calls[c].xfer.length = asked
                /\ (calls[c].caller = "returned" /\ calls[c].result.tag = "ok") =>
                     /\ calls[c].result.n <= blen
                     /\ calls[c].result.n = blen => Len(calls[c].tres.bytes) >= blen
                     /\ calls[c].buffer =
                          [i \in 1..blen |->
                             IF i <= calls[c].result.n THEN calls[c].tres.bytes[i]
                             ELSE calls[c].buffer0[i]]

C19_Witness ==
    \E c \in CallIds :
        /\ calls[c].kind = "read"
        /\ Len(calls[c].buffer0) = 65536
        /\ calls[c].xfer.length = 0
        /\ calls[c].caller = "returned"
        /\ calls[c].tres = OkBytes(<<>>)
        /\ calls[c].result = OkCount(0)

----------------------------------------------------------------------------
(* The transfers of read_control and write_control *)

IssuedTransfer(c) ==
    /\ Live(c)
    /\ calls[c].kind \in {"read", "write"}
    /\ calls[c].issued >= 1

\* C20: every control transfer issued by read_control or write_control has
\* as its index the interface number the session was opened with, whatever
\* the request_type byte (Device, Endpoint and Other recipients included),
\* request and value; read_control always issues a control-IN and
\* write_control always a control-OUT, whatever bit 7 of request_type says.
C20_IndexAndDirection ==
    \A c \in CallIds :
        IssuedTransfer(c) =>
            /\ calls[c].issued = 1
            /\ session # NoSession
            /\ session.interface_number = openArgs.interface_number
            /\ calls[c].xfer.index = session.interface_number
            /\ calls[c].xfer.dir = (IF calls[c].kind = "read" THEN "in" ELSE "out")
            /\ calls[c].xfer.request = calls[c].request
            /\ calls[c].xfer.value = calls[c].value
            /\ calls[c].kind = "read" => calls[c].xfer.data = <<>>
            /\ calls[c].kind = "write" => calls[c].xfer.length = 0

C20_Witness ==
    \E c \in CallIds :
        /\ IssuedTransfer(c)
        /\ calls[c].kind = "write"
        /\ calls[c].request_type = 159
        /\ calls[c].xfer.recipient = "Device"
        /\ calls[c].xfer.dir = "out"
        /\ session.interface_number = 1
        /\ calls[c].xfer.index = 1

====
